---- MODULE Spec2Model ----
(***************************************************************************)
(* A model of data_processing/preprocess.py: the label loader, the MIDI    *)
(* directory walk, the inner join, the genre encoding, the feature         *)
(* extraction and normalisation, the parallel row processing and the       *)
(* assembly of the output dataset.                                         *)
(*                                                                         *)
(* Python strings are sequences of one-character strings, so that strip,   *)
(* split and join act as they do in the interpreter.                       *)
(***************************************************************************)
EXTENDS Integers, Sequences, FiniteSets, TLC

VARIABLES
    label_file,     \* the lines of the file at genre_path, without their "\n"
    midi_folder,    \* the midi_folder argument
    fs,             \* the directory tree at midi_folder: directory -> listing
    pc,             \* where save_matching_csv is
    error,          \* the exception that ended the run, or NoError
    line_no,        \* get_genres: index of the next line readline returns
    ids,            \* get_genres: ids
    genres,         \* get_genres: genres
    genre_df,       \* the DataFrame get_genres returns
    walk_stack,     \* os.walk: the directories still to be listed
    track_ids,      \* get_matched_midi: track_ids
    file_paths,     \* get_matched_midi: file_paths
    matched_df,     \* the DataFrame get_matched_midi returns
    genre_list,     \* save_matching_csv: genre_list
    genre_dict,     \* save_matching_csv: genre_dict
    num_classes,    \* save_matching_csv: num_classes
    next_task,      \* Parallel: index of the next row of matched_df.iterrows()
    running,        \* Parallel: the calls of process_row the workers are in
    processed_data, \* Parallel: the results, in the order of the tasks
    processed_df,   \* save_matching_csv: processed_df
    output          \* the content of the file at output_path

inputs == <<label_file, midi_folder, fs>>
loader == <<line_no, ids, genres, genre_df>>
walker == <<walk_stack, track_ids, file_paths>>
encoder == <<genre_list, genre_dict, num_classes>>
pool == <<next_task, running, processed_data>>

vars == <<label_file, midi_folder, fs, pc, error,
          line_no, ids, genres, genre_df, walk_stack, track_ids, file_paths,
          matched_df, genre_list, genre_dict, num_classes,
          next_task, running, processed_data, processed_df, output>>

Null == "None"
NoError == "no error"

(***************************************************************************)
(* Bounds of the model.                                                    *)
(***************************************************************************)
MaxLines == 2       \* lines of a label file
MaxFiles == 2       \* files of a directory
NumWorkers == 2     \* worker processes of the pool
MaxSigChanges == 2  \* time-signature changes of a MIDI file

(***************************************************************************)
(* Characters and strings.                                                 *)
(***************************************************************************)
TAB == "\t"
NL == "\n"
SP == " "
HASH == "#"
SLASH == "/"

Whitespace == {SP, TAB, NL}

\* str.lstrip(): drop the leading whitespace
RECURSIVE lstrip(_)
lstrip(s) ==
    IF s # <<>> /\ Head(s) \in Whitespace THEN lstrip(Tail(s)) ELSE s

\* str.rstrip(): drop the trailing whitespace
RECURSIVE rstrip(_)
rstrip(s) ==
    IF s # <<>> /\ s[Len(s)] \in Whitespace
    THEN rstrip(SubSeq(s, 1, Len(s) - 1))
    ELSE s

\* str.strip()
strip(s) == rstrip(lstrip(s))

\* str.split(sep) for a one-character sep: one field more than there are
\* separators, empty fields kept
RECURSIVE split(_, _)
split(s, sep) ==
    IF \A i \in 1..Len(s) : s[i] # sep
    THEN <<s>>
    ELSE LET k == CHOOSE i \in 1..Len(s) :
                      s[i] = sep /\ \A j \in 1..(i - 1) : s[j] # sep
         IN  <<SubSeq(s, 1, k - 1)>> \o split(SubSeq(s, k + 1, Len(s)), sep)

(***************************************************************************)
(* Sequences.                                                              *)
(***************************************************************************)
Range(s) == { s[i] : i \in DOMAIN s }

SeqsUpTo(S, n) == UNION { [1..k -> S] : k \in 0..n }

RECURSIVE Concat(_)
Concat(ss) == IF ss = <<>> THEN <<>> ELSE Head(ss) \o Concat(Tail(ss))

\* Series.unique(): the distinct values, in order of first appearance
RECURSIVE unique(_)
unique(s) ==
    IF s = <<>>
    THEN <<>>
    ELSE LET front == SubSeq(s, 1, Len(s) - 1)
             last == s[Len(s)]
         IN  IF last \in Range(front) THEN unique(front)
             ELSE Append(unique(front), last)

(***************************************************************************)
(* get_genres                                                              *)
(***************************************************************************)
\* f.readline(): the next line with its newline, "" at the end of the file
readline(n) == IF n <= Len(label_file) THEN label_file[n] \o <<NL>> ELSE <<>>

\* line[0] != "#"
IsDataLine(line) == line[1] # HASH

\* line.strip().split("\t")
Fields(line) == split(strip(line), TAB)

\* pd.DataFrame(data={"Genre": genres, "TrackID": ids})
LabelFrame(gs, is) == [i \in 1..Len(is) |-> [Genre |-> gs[i], TrackID |-> is[i]]]

\* one turn of the while loop of get_genres, or the return after it
ReadLine ==
    /\ pc = "get_genres"
    /\ LET line == readline(line_no)
       IN  IF line = <<>>
           THEN /\ genre_df' = LabelFrame(genres, ids)
                /\ pc' = "walk"
                /\ UNCHANGED <<ids, genres, line_no, error>>
           ELSE IF ~IsDataLine(line)
           THEN /\ line_no' = line_no + 1
                /\ UNCHANGED <<ids, genres, genre_df, pc, error>>
           ELSE IF Len(Fields(line)) < 2
           THEN \* [x, y, *_] = ... raises ValueError
                /\ pc' = "aborted"
                /\ error' = "ValueError"
                /\ UNCHANGED <<ids, genres, genre_df, line_no>>
           ELSE /\ ids' = Append(ids, Fields(line)[1])
                /\ genres' = Append(genres, Fields(line)[2])
                /\ line_no' = line_no + 1
                /\ UNCHANGED <<genre_df, pc, error>>
    /\ UNCHANGED <<inputs, walker, matched_df, encoder, pool, processed_df, output>>

(***************************************************************************)
(* get_matched_midi: the walk of midi_folder                               *)
(***************************************************************************)
\* os.path.join(top, name)
path_join(top, name) ==
    IF top = <<>> \/ top[Len(top)] = SLASH THEN top \o name
    ELSE top \o <<SLASH>> \o name

\* dir_name.split("/")[-1]
TrackIdOf(dir_name) == LET parts == split(dir_name, SLASH) IN parts[Len(parts)]

\* "/".join([dir_name, file])
FilePath(dir_name, file) == dir_name \o <<SLASH>> \o file

\* one turn of the for loop over os.walk(midi_folder): the directory on top of
\* the stack is listed, its files are recorded and its subdirectories are pushed;
\* a directory that cannot be listed is skipped in silence (onerror is None)
WalkStep ==
    /\ pc = "walk"
    /\ walk_stack # <<>>
    /\ LET top == Head(walk_stack)
           dir_name == top.path
       IN  IF top.key \notin DOMAIN fs
           THEN /\ walk_stack' = Tail(walk_stack)
                /\ UNCHANGED <<track_ids, file_paths>>
           ELSE LET listing == fs[top.key]
                    track_id == TrackIdOf(dir_name)
                    file_path_list ==
                        [i \in 1..Len(listing.files) |->
                            FilePath(dir_name, listing.files[i].name)]
                    subdirs ==
                        [i \in 1..Len(listing.dirs) |->
                            [path |-> path_join(dir_name, listing.dirs[i]),
                             key |-> Append(top.key, listing.dirs[i])]]
                IN  /\ track_ids' =
                            track_ids \o [i \in 1..Len(file_path_list) |-> track_id]
                    /\ file_paths' = file_paths \o file_path_list
                    /\ walk_stack' = subdirs \o Tail(walk_stack)
    /\ UNCHANGED <<inputs, pc, error, loader, matched_df, encoder, pool,
                   processed_df, output>>

(***************************************************************************)
(* get_matched_midi: the inner join                                        *)
(***************************************************************************)
\* pd.DataFrame({"TrackID": track_ids, "Path": file_paths})
MidiFrame(ts, ps) == [i \in 1..Len(ts) |-> [TrackID |-> ts[i], Path |-> ps[i]]]

JoinRow(l, r) == [TrackID |-> l.TrackID, Path |-> l.Path, Genre |-> r.Genre]

\* the rows of the join in the order of the left rows (pandas >= 2.2)
JoinLeftOrder(left, right) ==
    Concat([i \in 1..Len(left) |->
              LET m == SelectSeq(right, LAMBDA r : r.TrackID = left[i].TrackID)
              IN  [j \in 1..Len(m) |-> JoinRow(left[i], m[j])]])

\* the rows of the join grouped by key, the keys in order of first appearance
\* (pandas < 2.2)
JoinKeyOrder(left, right) ==
    LET keys == unique([i \in 1..Len(left) |-> left[i].TrackID])
    IN  Concat([k \in 1..Len(keys) |->
                  JoinLeftOrder(SelectSeq(left, LAMBDA l : l.TrackID = keys[k]),
                                right)])

JoinOrders == {"left", "key"}

\* a join that pairs a file with the first label of its identifier only
merge_first_label(left, right, order) ==
    Concat([i \in 1..Len(left) |->
              LET m == SelectSeq(right, LAMBDA r : r.TrackID = left[i].TrackID)
              IN  IF m = <<>> THEN <<>> ELSE <<JoinRow(left[i], m[1])>>])

\* pd.merge(left, right, on="TrackID", how="inner")
merge(left, right, order) ==
    IF order = "left" THEN JoinLeftOrder(left, right)
    ELSE JoinKeyOrder(left, right)

\* df.drop(["TrackID"], axis=1)
DropTrackID(df) == [i \in 1..Len(df) |-> [Path |-> df[i].Path, Genre |-> df[i].Genre]]

\* the end of the walk: the file index is joined with the labels
Merge ==
    /\ pc = "walk"
    /\ walk_stack = <<>>
    /\ \E order \in JoinOrders :
          matched_df' =
              DropTrackID(merge(MidiFrame(track_ids, file_paths), genre_df, order))
    /\ pc' = "encode"
    /\ UNCHANGED <<inputs, error, loader, walker, encoder, pool, processed_df, output>>

(***************************************************************************)
(* The genre mapping and the one-hot encoding                              *)
(***************************************************************************)
\* {genre: idx for idx, genre in enumerate(genre_list)}: a later index of the
\* same genre replaces an earlier one
GenreDict(list) ==
    [g \in Range(list) |->
        (CHOOSE i \in 1..Len(list) :
            list[i] = g /\ \A j \in (i + 1)..Len(list) : list[j] # g) - 1]

\* the Genre column taken without unique()
GenreColumn(df) == [i \in 1..Len(df) |-> df[i].Genre]

\* matched_df["Genre"].unique()
GenreList(df) == unique([i \in 1..Len(df) |-> df[i].Genre])

\* a result Parallel has not received yet
Pending == [pending |-> TRUE]

\* lines 193-195, and Parallel laying out one result per row of matched_df
BuildGenreDict ==
    /\ pc = "encode"
    /\ genre_list' = GenreList(matched_df)
    /\ genre_dict' = GenreDict(GenreList(matched_df))
    /\ num_classes' = Len(GenreList(matched_df))
    /\ processed_data' = [i \in 1..Len(matched_df) |-> Pending]
    /\ pc' = "parallel"
    /\ UNCHANGED <<inputs, error, loader, walker, matched_df, next_task, running,
                   processed_df, output>>

\* np.eye(n): rows and columns are numbered from 0
eye(n) == [i \in 1..n |-> [j \in 1..n |-> IF i = j THEN 1 ELSE 0]]

\* an encoding that takes the labels as numbered from 1: np.eye(n)[labels - 1],
\* where numpy counts a negative index from the end
one_hot_from_1(labels, n) == [k \in 1..Len(labels) |-> eye(n)[((labels[k] - 1) % n) + 1]]

\* np.eye(num_classes)[labels].astype(int)
one_hot(labels, n) == [k \in 1..Len(labels) |-> eye(n)[labels[k] + 1]]

(***************************************************************************)
(* get_features and normalize_features                                     *)
(***************************************************************************)
\* a quotient n / d, kept exact
Frac(n, d) == <<n, d>>

\* a normalisation that returns the two time-signature values before the resolution
normalize_features_reordered(features) ==
    LET tempo == Frac(features[1] - 150, 300)
        num_sig_changes == Frac(features[2] - 2, 10)
        resolution == Frac(features[3] - 260, 400)
        time_sig_1 == Frac(features[4] - 3, 8)
        time_sig_2 == Frac(features[5] - 3, 8)
    IN  <<tempo, num_sig_changes, time_sig_1, time_sig_2, resolution>>

normalize_features(features) ==
    LET tempo == Frac(features[1] - 150, 300)
        num_sig_changes == Frac(features[2] - 2, 10)
        resolution == Frac(features[3] - 260, 400)
        time_sig_1 == Frac(features[4] - 3, 8)
        time_sig_2 == Frac(features[5] - 3, 8)
    IN  <<tempo, num_sig_changes, resolution, time_sig_1, time_sig_2>>

\* the components of a path: empty ones (doubled or trailing slashes) do not count
Components(p) == SelectSeq(split(p, SLASH), LAMBDA c : c # <<>>)

\* what opening a path that names no file gives
NoFile == [parse |-> "missing", tempo |-> 0, time_signature_changes |-> <<>>,
           resolution |-> 0]

\* the None get_features returns
None == <<>>

\* the file the operating system opens for a path built by the walk
FileAt(path) ==
    LET rel == SubSeq(Components(path), Len(Components(midi_folder)) + 1,
                      Len(Components(path)))
        key == SubSeq(rel, 1, Len(rel) - 1)
    IN  IF rel = <<>> \/ key \notin DOMAIN fs THEN NoFile
        ELSE LET hits == SelectSeq(fs[key].files, LAMBDA f : f.name = rel[Len(rel)])
             IN  IF hits = <<>> THEN NoFile ELSE hits[1].midi

\* a parse whose warnings are printed and not raised
ParseRaisesNoFilter(file) == file.parse \in {"missing", "raise"}

\* pretty_midi.PrettyMIDI(path) under warnings.simplefilter("error"): a warning
\* of the parser is raised as an exception
ParseRaises(file) == file.parse \in {"missing", "raise", "warn"}

get_features(path) ==
    LET file == FileAt(path)
    IN  IF ParseRaises(file)
        THEN None
        ELSE LET tempo == file.tempo
                 num_sig_changes == Len(file.time_signature_changes)
                 resolution == file.resolution
                 ts_changes == file.time_signature_changes
                 ts_1 == IF Len(ts_changes) > 0 THEN ts_changes[1].numerator ELSE 4
                 ts_2 == IF Len(ts_changes) > 0 THEN ts_changes[1].denominator ELSE 4
             IN  normalize_features(<<tempo, num_sig_changes, resolution, ts_1, ts_2>>)

(***************************************************************************)
(* process_row on the workers of Parallel(n_jobs=-1)                       *)
(***************************************************************************)
\* the pool hands the next row of matched_df.iterrows() to a free worker, which
\* gets its own copy of the row
Dispatch ==
    /\ pc = "parallel"
    /\ Cardinality(running) < NumWorkers
    /\ next_task <= Len(matched_df)
    /\ running' = running \cup {[task |-> next_task, row |-> matched_df[next_task]]}
    /\ next_task' = next_task + 1
    /\ UNCHANGED <<inputs, pc, error, loader, walker, matched_df, encoder,
                   processed_data, processed_df, output>>

\* a process_row that reads the path when it runs, from the row the generator
\* reached last, and not from the row it was called with
ProcessedRowLateBinding(row, dict, n) ==
    [Path |-> matched_df[next_task - 1].Path,
     Genre |-> row.Genre,
     OneHotGenre |-> one_hot(<<dict[row.Genre]>>, n)[1],
     Features |-> get_features(row.Path)]

\* the dict process_row returns
ProcessedRow(row, dict, n) ==
    LET features == get_features(row.Path)
        genre_id == dict[row.Genre]
        one_hot_genre == one_hot(<<genre_id>>, n)[1]
    IN  [Path |-> row.Path,
         Genre |-> row.Genre,
         OneHotGenre |-> one_hot_genre,
         Features |-> features]

\* a worker runs process_row on its row; the result takes the place of its task
\* in the list Parallel returns, and an exception of the worker is raised again
\* by Parallel
ProcessRow(call) ==
    /\ pc = "parallel"
    /\ call \in running
    /\ IF call.row.Genre \notin DOMAIN genre_dict
       THEN \* genre_dict[row["Genre"]] raises KeyError(genre)
            /\ pc' = "aborted"
            /\ error' = "KeyError(genre)"
            /\ UNCHANGED <<running, processed_data>>
       ELSE /\ processed_data' =
                   [processed_data EXCEPT ![call.task] =
                       ProcessedRow(call.row, genre_dict, num_classes)]
            /\ running' = running \ {call}
            /\ UNCHANGED <<pc, error>>
    /\ UNCHANGED <<inputs, loader, walker, matched_df, encoder, next_task,
                   processed_df, output>>

(***************************************************************************)
(* The assembly of the dataset                                             *)
(***************************************************************************)
\* pd.DataFrame(processed_data): the columns are the keys of the dicts, so a
\* frame made of no dict has no column
DataFrame(data) ==
    [columns |-> IF data = <<>> THEN {}
                 ELSE {"Path", "Genre", "OneHotGenre", "Features"},
     rows |-> data]

\* df.dropna(subset=["Features"]) on a frame that has the column
dropna(df) ==
    [columns |-> df.columns,
     rows |-> SelectSeq(df.rows, LAMBDA r : r.Features # None)]

\* Parallel has returned every result: the frame is built and filtered
Assemble ==
    /\ pc = "parallel"
    /\ Len(processed_data) = Len(matched_df)
    /\ \A i \in 1..Len(processed_data) : processed_data[i] # Pending
    /\ IF "Features" \notin DataFrame(processed_data).columns
       THEN \* dropna raises KeyError(['Features'])
            /\ pc' = "aborted"
            /\ error' = "KeyError(['Features'])"
            /\ UNCHANGED processed_df
       ELSE /\ processed_df' = dropna(DataFrame(processed_data))
            /\ pc' = "write"
            /\ UNCHANGED error
    /\ UNCHANGED <<inputs, loader, walker, matched_df, encoder, pool, output>>

\* processed_df.to_json(output_path, orient="records"): the records are written,
\* or the file at output_path cannot be opened for writing
Write ==
    /\ pc = "write"
    /\ \E writable \in BOOLEAN :
          IF writable
          THEN /\ output' = processed_df.rows
               /\ pc' = "done"
               /\ UNCHANGED error
          ELSE /\ pc' = "aborted"
               /\ error' = "OSError"
               /\ UNCHANGED output
    /\ UNCHANGED <<inputs, loader, walker, matched_df, encoder, pool, processed_df>>

Next ==
    \/ ReadLine
    \/ WalkStep
    \/ Merge
    \/ BuildGenreDict
    \/ Dispatch
    \/ \E call \in running : ProcessRow(call)
    \/ Assemble
    \/ Write

(***************************************************************************)
(* The inputs of a run                                                     *)
(***************************************************************************)
\* what pretty_midi makes of a file: parse is "ok", or "raise" when PrettyMIDI or
\* estimate_tempo raises an exception, or "warn" when the parser emits a warning
Midi(parse, tempo, ts, res) ==
    [parse |-> parse, tempo |-> tempo, time_signature_changes |-> ts,
     resolution |-> res]

TS(n, d) == [numerator |-> n, denominator |-> d]

Good == Midi("ok", 120, <<>>, 480)
Waltz == Midi("ok", 90, <<TS(3, 4), TS(6, 8)>>, 960)
Corrupt == Midi("raise", 0, <<>>, 0)
Warned == Midi("warn", 120, <<>>, 480)

A == <<"a">>
B == <<"b">>
Digits == <<"1", "2", "3", "4", "5", "6", "7", "8", "9">>
FileName(i) == <<"f", Digits[i]>>

File(i, m) == [name |-> FileName(i), midi |-> m]
Listing(ds, fl) == [dirs |-> ds, files |-> fl]
NoTree == <<>>

\* the start of save_matching_csv
Start(lf, folder, tree) ==
    /\ label_file = lf
    /\ midi_folder = folder
    /\ fs = tree
    /\ pc = "get_genres"
    /\ error = NoError
    /\ line_no = 1
    /\ ids = <<>>
    /\ genres = <<>>
    /\ genre_df = Null
    /\ walk_stack = <<[path |-> folder, key |-> <<>>]>>
    /\ track_ids = <<>>
    /\ file_paths = <<>>
    /\ matched_df = Null
    /\ genre_list = Null
    /\ genre_dict = Null
    /\ num_classes = 0
    /\ next_task = 1
    /\ running = {}
    /\ processed_data = <<>>
    /\ processed_df = Null
    /\ output = Null

\* whole runs: the label lines and the trees are small, every kind of file occurs
PipeLines ==
    { <<"a", TAB, "R">>, <<"a", TAB, "P">>, <<"b", TAB, "R">>, <<"a">> }

PipeMidi == {Good, Corrupt, Warned}

PipeTree(fa, fb) ==
    (<<>> :> Listing(<<A, B>>, <<>>))
    @@ (<<A>> :> Listing(<<>>, [i \in 1..Len(fa) |-> File(i, fa[i])]))
    @@ (<<B>> :> Listing(<<>>, [i \in 1..Len(fb) |-> File(i, fb[i])]))

PipeTrees ==
    {NoTree} \cup
    { PipeTree(fa, fb) : fa \in SeqsUpTo(PipeMidi, MaxFiles), fb \in {<<>>, <<Waltz>>} }

Init ==
    \E lf \in SeqsUpTo(PipeLines, MaxLines), tree \in PipeTrees :
        Start(lf, <<"r">>, tree)

Spec == Init /\ [][Next]_vars

\* the label loader: label files of many shapes over one matching file
LoaderLines ==
    { <<HASH, "c">>,
      <<"a", TAB, "R">>,
      <<"b", TAB, "P">>,
      <<"a", TAB, "R", TAB, "x">>,
      <<"a">>,
      <<>>,
      <<TAB, "R">>,
      <<TAB, "R", TAB, "x">>,
      <<"a", TAB>>,
      <<"a", TAB, TAB, "x">>,
      <<SP, TAB, "R">>,
      <<"a", TAB, SP, TAB, "x">>,
      <<SP, "a", TAB, "R">>,
      <<"a", TAB, "R", SP>>,
      <<SP, HASH, "c">> }

InitLoader ==
    \E lf \in SeqsUpTo(LoaderLines, MaxLines) :
        Start(lf, <<"r">>, PipeTree(<<Good>>, <<>>))

SpecLoader == InitLoader /\ [][Next]_vars

\* the walk: trees of two levels under roots written with and without a slash
AllKeys == {<<>>, <<A>>, <<B>>, <<A, B>>, <<B, A>>}

KeySets ==
    { K \in SUBSET AllKeys :
        /\ <<>> \in K
        /\ \A k \in K : k = <<>> \/ SubSeq(k, 1, Len(k) - 1) \in K }

WalkTree(K, count) ==
    [k \in K |->
        Listing(SelectSeq(<<A, B>>, LAMBDA n : Append(k, n) \in K),
                [i \in 1..count[k] |-> File(i, Good)])]

WalkTrees ==
    {NoTree} \cup
    UNION { { WalkTree(K, count) : count \in [K -> 0..MaxFiles] } : K \in KeySets }

RootArgs ==
    { <<"r">>, <<"r", SLASH>>, <<"d", SLASH, "r">>, <<"d", SLASH, "r", SLASH>> }

InitWalk ==
    \E folder \in RootArgs, tree \in WalkTrees :
        Start(<<<<"a", TAB, "R">>, <<"r", TAB, "P">>>>, folder, tree)

SpecWalk == InitWalk /\ [][Next]_vars

\* the join: labels that share identifiers over files that share them, in
\* directories of one name that the walk does not visit in a row
JoinLines == { <<"a", TAB, "R">>, <<"a", TAB, "P">>, <<"b", TAB, "R">> }

JoinKeys == {<<>>, <<A>>, <<B>>, <<B, A>>}

JoinTrees ==
    { WalkTree(JoinKeys, count) :
        count \in { c \in [JoinKeys -> 0..MaxFiles] :
                       c[<<>>] = 0 /\ c[<<B>>] <= 1 /\ c[<<B, A>>] <= 1 } }

InitJoin ==
    \E lf \in SeqsUpTo(JoinLines, MaxLines), tree \in JoinTrees :
        Start(lf, <<"r">>, tree)

SpecJoin == InitJoin /\ [][Next]_vars

\* the feature extraction: one matched file of any content
Tempos == {0, 30, 120, 150, 450, 500}
Resolutions == {24, 260, 480, 660, 960}
Signatures == {TS(1, 1), TS(3, 4), TS(4, 4), TS(11, 8), TS(12, 16)}
Parses == {"ok", "raise", "warn"}

FeatMidi ==
    { Midi(p, t, ts, r) :
        p \in Parses, t \in Tempos, ts \in SeqsUpTo(Signatures, MaxSigChanges), r \in Resolutions }

InitFeat ==
    \E m \in FeatMidi :
        Start(<<<<"a", TAB, "R">>>>, <<"r">>, PipeTree(<<m>>, <<>>))

SpecFeat == InitFeat /\ [][Next]_vars

(***************************************************************************)
(* Properties                                                              *)
(***************************************************************************)
\* get_genres has returned
Loaded == pc # "get_genres" /\ error # "ValueError"

\* get_matched_midi has returned
Joined == Loaded /\ pc # "walk"

\* the genre mapping is built
Encoded == Joined /\ pc # "encode"

\* the MIDI file of a path is corrupted: its parse raises or warns
Corrupted(path) == FileAt(path).parse \in {"raise", "warn"}

\* the vector of length n whose only 1 is at index k, counted from 0
UnitVector(n, k) == [j \in 1..n |-> IF j = k + 1 THEN 1 ELSE 0]

\* the record a matched row stands for
ExpectedRecord(row) ==
    [Path |-> row.Path,
     Genre |-> row.Genre,
     OneHotGenre |-> UnitVector(num_classes, genre_dict[row.Genre]),
     Features |-> get_features(row.Path)]

\* a quotient f equals n / d
RatEq(f, n, d) == f[2] # 0 /\ f[1] * d = n * f[2]

\* a quotient f with a positive denominator lies in [-1, 1]
InUnitRange(f) == f[2] > 0 /\ -f[2] <= f[1] /\ f[1] <= f[2]

----------------------------------------------------------------------------
PairsOf(p, g) ==
    { ij \in (1..Len(track_ids)) \X (1..Len(genre_df)) :
        /\ track_ids[ij[1]] = genre_df[ij[2]].TrackID
        /\ file_paths[ij[1]] = p
        /\ genre_df[ij[2]].Genre = g }

RowsOf(p, g) ==
    { k \in 1..Len(matched_df) : matched_df[k].Path = p /\ matched_df[k].Genre = g }

----------------------------------------------------------------------------
\* C2: when rows were matched and the output can be written the run does not
\* abort, and the dataset it writes holds no record of a corrupted file and,
\* for every other matched row, the record of that row.
C2_FaultIsolation ==
    /\ (pc = "aborted" /\ Joined) =>
          (Len(matched_df) > 0 => error = "OSError")
    /\ pc = "done" =>
          output = SelectSeq([i \in 1..Len(matched_df) |-> ExpectedRecord(matched_df[i])],
                             LAMBDA r : ~Corrupted(r.Path))

\* a finished run over rows of which some, not all, are corrupted
C2_Witness ==
    /\ pc = "done"
    /\ \E i, j \in 1..Len(matched_df) :
          /\ FileAt(matched_df[i].Path).parse = "raise"
          /\ FileAt(matched_df[j].Path).parse = "warn"
    /\ Len(output) > 0

----------------------------------------------------------------------------
\* the non-comment lines of the label file that have fewer than two fields
MalformedLines ==
    { n \in 1..Len(label_file) :
        /\ ~(label_file[n] # <<>> /\ label_file[n][1] = HASH)
        /\ Len(split(label_file[n], TAB)) < 2 }

\* C3: a run ends either with a dataset whose records come from matched rows or
\* with the error of the failed precondition: a parse error for a malformed
\* label line, an I/O error for a root that cannot be walked or an output that
\* cannot be written; it ends with no other error.
C3_RunEndsInTaxonomy ==
    /\ pc = "done" =>
          /\ DOMAIN fs # {}
          /\ \A k \in 1..Len(output) :
                \E i \in 1..Len(matched_df) :
                    /\ output[k].Path = matched_df[i].Path
                    /\ output[k].Genre = matched_df[i].Genre
    /\ pc = "aborted" =>
          \/ error = "ValueError" /\ MalformedLines # {}
          \/ error = "OSError"

----------------------------------------------------------------------------
IsComment(line) == line # <<>> /\ line[1] = HASH

\* the records the label lines stand for
RECURSIVE LabelRecords(_)
LabelRecords(lines) ==
    IF lines = <<>>
    THEN <<>>
    ELSE LET line == lines[Len(lines)]
             rest == LabelRecords(SubSeq(lines, 1, Len(lines) - 1))
             f == split(line, TAB)
         IN  IF ~IsComment(line) /\ Len(f) >= 2
             THEN Append(rest, [Genre |-> f[2], TrackID |-> f[1]])
             ELSE rest

\* C4: get_genres returns, in file order, one record for every line that does
\* not begin with '#' and has at least two tab-separated fields, made of the
\* first field and the second; such a line is no parse error.
C4_OneRecordPerDataLine ==
    /\ Loaded => genre_df = LabelRecords(label_file)
    /\ error = "ValueError" => MalformedLines # {}

----------------------------------------------------------------------------
\* C5: the identifier recorded for a file is the name of the directory that
\* holds it, the name of the root for a file of the root itself.
C5_IdentifierIsParentName ==
    \A i \in 1..Len(file_paths) :
        LET c == Components(file_paths[i])
        IN  track_ids[i] = c[Len(c) - 1]

----------------------------------------------------------------------------
\* C6: the one-hot vector of a processed row has length num_classes, holds one
\* 1 and 0 elsewhere, and the 1 is at the index the mapping gives its genre.
C6_OneHotAtMappedIndex ==
    (pc = "parallel" \/ pc = "write" \/ pc = "done") =>
        /\ \A i \in 1..Len(processed_data) :
              processed_data[i] # Pending =>
                  LET v == processed_data[i].OneHotGenre
                      g == processed_data[i].Genre
                  IN  /\ Len(v) = num_classes
                      /\ g \in DOMAIN genre_dict
                      /\ v[genre_dict[g] + 1] = 1
                      /\ \A j \in 1..Len(v) : j # genre_dict[g] + 1 => v[j] = 0
        /\ \A g \in DOMAIN genre_dict :
              LET v == one_hot(<<genre_dict[g]>>, num_classes)[1]
              IN  /\ Len(v) = num_classes
                  /\ { j \in 1..Len(v) : v[j] = 1 } = {genre_dict[g] + 1}
                  /\ { j \in 1..Len(v) : v[j] = 0 } = (1..Len(v)) \ {genre_dict[g] + 1}

\* a processed row whose genre is not the first of two classes
C6_Witness ==
    /\ pc = "parallel"
    /\ num_classes = 2
    /\ \E i \in 1..Len(processed_data) :
          /\ processed_data[i] # Pending
          /\ genre_dict[processed_data[i].Genre] = 1

----------------------------------------------------------------------------
FirstRow(g) ==
    CHOOSE i \in 1..Len(matched_df) :
        matched_df[i].Genre = g /\ \A j \in 1..(i - 1) : matched_df[j].Genre # g

MatchedGenres == { matched_df[i].Genre : i \in 1..Len(matched_df) }

\* C7: the genre mapping is a bijection from the genres of the matched rows
\* onto 0..num_classes-1 that numbers them in order of first occurrence,
\* num_classes is the number of those genres, and no lookup of a row's genre
\* raises KeyError.
C7_MappingIsBijection ==
    /\ Encoded =>
          /\ DOMAIN genre_dict = MatchedGenres
          /\ num_classes = Cardinality(MatchedGenres)
          /\ { genre_dict[g] : g \in MatchedGenres } = 0..(num_classes - 1)
          /\ \A g, h \in MatchedGenres :
                (genre_dict[g] < genre_dict[h]) <=> (FirstRow(g) < FirstRow(h))
    /\ error # "KeyError(genre)"

\* a mapping of two genres built from rows that repeat a genre
C7_Witness ==
    /\ pc = "parallel"
    /\ num_classes = 2
    /\ Len(matched_df) > 2

----------------------------------------------------------------------------
\* C8: the features of a file are, in this order, (tempo-150)/300,
\* (num_sig_changes-2)/10, (resolution-260)/400, (ts_numerator-3)/8 and
\* (ts_denominator-3)/8, the time signature being the first change of the file,
\* or 4/4 when it has none; tempo 120, resolution 480 and no change give
\* -0.1, -0.2, 0.55, 0.125 and 0.125.
C8_NormalizedFeatures ==
    pc = "done" =>
        \A k \in 1..Len(output) :
            LET file == FileAt(output[k].Path)
                ts == file.time_signature_changes
                f == output[k].Features
            IN  /\ Len(f) = 5
                /\ RatEq(f[1], file.tempo - 150, 300)
                /\ RatEq(f[2], Len(ts) - 2, 10)
                /\ RatEq(f[3], file.resolution - 260, 400)
                /\ RatEq(f[4], (IF ts = <<>> THEN 4 ELSE ts[1].numerator) - 3, 8)
                /\ RatEq(f[5], (IF ts = <<>> THEN 4 ELSE ts[1].denominator) - 3, 8)
                /\ (file.tempo = 120 /\ ts = <<>> /\ file.resolution = 480) =>
                      /\ RatEq(f[1], -1, 10)
                      /\ RatEq(f[2], -2, 10)
                      /\ RatEq(f[3], 55, 100)
                      /\ RatEq(f[4], 125, 1000)
                      /\ RatEq(f[5], 125, 1000)

\* the dataset of a file of tempo 120 and resolution 480 without time signature
C8_Witness ==
    /\ pc = "done"
    /\ Len(output) = 1
    /\ FileAt(output[1].Path) = Good

----------------------------------------------------------------------------
\* C9: every normalised feature lies in [-1, 1].
C9_FeaturesInUnitRange ==
    pc = "done" =>
        \A k \in 1..Len(output) :
            \A j \in 1..Len(output[k].Features) : InUnitRange(output[k].Features[j])

----------------------------------------------------------------------------
\* a record belongs to a matched row
BelongsTo(r, row) == r = ExpectedRecord(row)

\* C10: Parallel returns one result per matched row, whatever the order in
\* which the workers take and finish the rows, and every result, and every
\* record of the dataset, has the path and the genre of one row, the encoding
\* of that row's genre and the features of that row's file.
C10_OneConsistentRowPerInput ==
    /\ (pc = "parallel" \/ pc = "write" \/ pc = "done") =>
          /\ Len(processed_data) = Len(matched_df)
          /\ \A i \in 1..Len(processed_data) :
                processed_data[i] # Pending =>
                    BelongsTo(processed_data[i], matched_df[i])
    /\ (pc = "write" \/ pc = "done") =>
          \A i \in 1..Len(processed_data) : processed_data[i] # Pending
    /\ pc = "done" =>
          \A k \in 1..Len(output) :
              \E i \in 1..Len(matched_df) : BelongsTo(output[k], matched_df[i])

\* a later row is finished while an earlier row of another file is still at work
C10_Witness ==
    /\ pc = "parallel"
    /\ \E call \in running :
          \E i \in 1..Len(processed_data) :
              /\ i > call.task
              /\ processed_data[i] # Pending
              /\ processed_data[i].Path # call.row.Path
              /\ processed_data[i].Features # get_features(call.row.Path)
====
